---- MODULE Spec2Model ----
(***************************************************************************)
(* Model of the two camera-RAW command-line bridges, r3d-tool and          *)
(* braw-tool: argument parsing, the four subcommands, the frame-index and  *)
(* JPEG target-size arithmetic, and what each run writes to stdout/stderr  *)
(* and returns as its exit code.                                           *)
(***************************************************************************)
EXTENDS Integers, Sequences, FiniteSets, TLC

\* ------------------------------------------------------------------------
\* Bounds of the model
\* ------------------------------------------------------------------------
MaxDimSrc == 23      \* largest source width/height of the target-size model
MaxMaxDim == 16      \* largest --max-dim value of the target-size model
MaxTicks  == 12      \* largest requested time, in ticks of 1/TimeDen second
MaxFps    == 3       \* largest frame rate of the frame-index model
MaxFrames == 5       \* largest frame count of the frame-index model
MaxSamples == 3      \* largest number of audio samples of a clip
MaxChannels == 2     \* largest number of audio channels of a clip
ChunkSamples == 2    \* samples per read (48000 in both tools)
MaxByteStep == 2     \* audio bytes lie within this of 0, of 127/128 or of 255
MaxMantStep == 2     \* float mantissas lie within this of 2^23 or of 2^24 - 1
MaxExp == 40         \* float samples are m * 2^e with -MaxExp <= e <= -21

VARIABLES
  jpegIn,     \* target-size model: [w, h, maxDim] handed to the JPEG writer
  r3dJpeg,    \* what writeBGRAasJPEG computed for it (NoSize before the call)
  brawJpeg,   \* what WriteJPEG computed for it (NoSize before the call)
  idxIn,      \* frame-index model: [ticks, fps, frameCount]
  r3dIdx,     \* frameNo handed to DecodeVideoFrame (NoIdx before the call)
  brawIdx,    \* frameIndex handed to CreateJobReadFrame (NoIdx before the call)
  tool,       \* a run of one tool: "r3d" or "braw"
  argv,       \* its command line
  pc,         \* where the run stands
  call,       \* the subcommand main called: [cmd, args, maxDim]
  times,      \* the timestamps the subcommand extracts
  stdout,     \* the characters written to stdout
  stderr,     \* the messages written to stderr
  exit,       \* the exit code (NoExit while running)
  sdk,        \* the SDK and OS calls made so far, each with its success
  attempted,  \* the timestamps handed to the frame extraction, in order
  rets,       \* what the frame extraction returned for each timestamp
  cb,         \* braw-tool: the FrameCallback of the frame being extracted
  audio,      \* extract-audio: the clip's audio and the WAV file
  wav,        \* WAV bookkeeping model: r3d-tool's extract-audio on long clips
  intIn,      \* sample model: the 4 bytes of one integer audio value
  intPcm,     \* the PCM sample emitted for it (<<>> before the conversion)
  fltIn,      \* sample model: one float audio value
  fltPcm      \* the PCM sample emitted for it (<<>> before the conversion)

pcmVars == <<intIn, intPcm, fltIn, fltPcm>>
numVars == <<jpegIn, r3dJpeg, brawJpeg, idxIn, r3dIdx, brawIdx, wav, pcmVars>>
runVars == <<tool, argv, pc, call, times, stdout, stderr, exit, sdk,
             attempted, rets, cb, audio>>

\* ------------------------------------------------------------------------
\* IEEE-754 binary64 arithmetic, as far as the tools use it.
\* A positive double is [m |-> 53 bits, most significant first, e |-> exp],
\* its value being (the integer m) * 2^e.
\* ------------------------------------------------------------------------
DBL_MANT_DIG == 53

\* the integer a short bit string stands for
RECURSIVE BitsToInt(_)
BitsToInt(bits) ==
  IF bits = <<>> THEN 0
  ELSE 2 * BitsToInt(SubSeq(bits, 1, Len(bits) - 1)) + bits[Len(bits)]

\* bits + 1; the carry out of the top bit is returned separately
IncBits(bits) ==
  LET zeros == {k \in 1..Len(bits) : bits[k] = 0}
      last  == CHOOSE k \in zeros : \A j \in zeros : j <= k
  IN  IF zeros = {} THEN [bits |-> [k \in 1..Len(bits) |-> 0], carry |-> 1]
      ELSE [bits |-> [k \in 1..Len(bits) |->
                        IF k < last THEN bits[k] ELSE IF k = last THEN 1 ELSE 0],
            carry |-> 0]

\* round-to-nearest, ties-to-even, of an exact bit string of any length
\* (with "sticky" telling whether non-zero bits were dropped beyond it)
\* to DBL_MANT_DIG bits; e is the exponent of the last bit of "bits"
RoundNearestEven(bits, sticky, e) ==
  IF Len(bits) <= DBL_MANT_DIG
  THEN [m |-> bits \o [k \in 1..(DBL_MANT_DIG - Len(bits)) |-> 0],
        e |-> e - (DBL_MANT_DIG - Len(bits))]
  ELSE LET keep  == SubSeq(bits, 1, DBL_MANT_DIG)
           guard == bits[DBL_MANT_DIG + 1]
           rest  == SubSeq(bits, DBL_MANT_DIG + 2, Len(bits))
           stk   == sticky \/ (\E k \in 1..Len(rest) : rest[k] = 1)
           e2    == e + (Len(bits) - DBL_MANT_DIG)
           up    == guard = 1 /\ (stk \/ keep[DBL_MANT_DIG] = 1)
           inc   == IncBits(keep)
       IN  IF ~up THEN [m |-> keep, e |-> e2]
           ELSE IF inc.carry = 1
                THEN [m |-> <<1>> \o [k \in 1..(DBL_MANT_DIG - 1) |-> 0],
                      e |-> e2 + 1]
                ELSE [m |-> inc.bits, e |-> e2]

\* 2^k mod den, by repeated squaring (den < 2^15)
RECURSIVE PowMod2(_, _)
PowMod2(k, den) ==
  IF k = 0 THEN 1 % den
  ELSE IF k % 2 = 1 THEN (2 * PowMod2(k - 1, den)) % den
  ELSE LET h == PowMod2(k \div 2, den) IN (h * h) % den

\* the remainder of the long division r/den after k quotient bits
DivRem(r, den, k) == (r * PowMod2(k, den)) % den

\* the first n bits of the binary expansion of r/den (0 <= r < den)
DivBits(r, den, n) ==
  [bits |-> [k \in 1..n |-> (2 * DivRem(r, den, k - 1)) \div den],
   rem  |-> DivRem(r, den, n)]

\* number of zero bits after the binary point before the first 1 of r/den
RECURSIVE LeadingZeros(_, _)
LeadingZeros(r, den) ==
  IF 2 * r >= den THEN 0 ELSE 1 + LeadingZeros(2 * r, den)

\* the least k with num < den * 2^k
RECURSIVE IntegerBits(_, _)
IntegerBits(num, den) ==
  IF num < den THEN 0 ELSE 1 + IntegerBits(num, 2 * den)

DoubleZero == [m |-> [k \in 1..DBL_MANT_DIG |-> 0], e |-> -DBL_MANT_DIG]

\* (double)num / (double)den for integers num >= 0, den > 0
DoubleDiv(num, den) ==
  IF num = 0 THEN DoubleZero
  ELSE LET up == IntegerBits(num, den)
           d2 == den * 2^up
           z  == LeadingZeros(num, d2)
           q  == DivBits(num * 2^z, d2, DBL_MANT_DIG + 1)
       IN  RoundNearestEven(q.bits, q.rem # 0, up - (z + DBL_MANT_DIG + 1))

\* multiplication of a bit string by a small integer, in limbs of
\* LimbBits bits so that no intermediate value leaves 32 bits
LimbBits == 13
LimbBase == 2^LimbBits

\* bit p (0 = least significant) of a bit string
BitAt(bits, p) == IF p < Len(bits) THEN bits[Len(bits) - p] ELSE 0

\* the value of the q lowest bits of limb i (0 = least significant limb)
RECURSIVE LimbLow(_, _, _)
LimbLow(bits, i, q) ==
  IF q = 0 THEN 0
  ELSE LimbLow(bits, i, q - 1) + BitAt(bits, i * LimbBits + q - 1) * 2^(q - 1)

\* the limbs of bits * a, least significant first, the last one being the
\* carry out of the top limb; 1 <= a < 2^15
MulLimbs(bits, a) ==
  LET n     == (Len(bits) + LimbBits - 1) \div LimbBits
      t[i \in 0..(n - 1)] ==
        LimbLow(bits, i, LimbBits) * a
          + (IF i = 0 THEN 0 ELSE t[i - 1] \div LimbBase)
  IN  [i \in 0..n |-> IF i < n THEN t[i] % LimbBase ELSE t[n - 1] \div LimbBase]

\* bit p (0 = least significant) of a number given by its limbs
LimbBit(limbs, p) == (limbs[p \div LimbBits] \div 2^(p % LimbBits)) % 2

\* the bit string, without leading zeros, of a number given by its limbs
LimbsToBits(limbs) ==
  LET ones == {p \in 0..(LimbBits * Cardinality(DOMAIN limbs) - 1) :
                 LimbBit(limbs, p) = 1}
      top  == CHOOSE p \in ones : \A q \in ones : q <= p
  IN  IF ones = {} THEN <<>>
      ELSE [k \in 1..(top + 1) |-> LimbBit(limbs, top + 1 - k)]

\* bits * a as an exact bit string
MulBits(bits, a) == LimbsToBits(MulLimbs(bits, a))

\* (double)a * d for an integer a >= 1
DoubleMulInt(a, d) == RoundNearestEven(MulBits(d.m, a), FALSE, d.e)

\* (size_t)d, (uint32_t)d: truncation toward zero of a double in [0, 2^31)
DoubleToUInt(d) ==
  IF DBL_MANT_DIG + d.e <= 0 THEN 0
  ELSE BitsToInt(SubSeq(d.m, 1, DBL_MANT_DIG + d.e))

\* ------------------------------------------------------------------------
\* Integer casts
\* ------------------------------------------------------------------------
INT_MAX == 2147483647

\* (int)x of a size_t x that fits TLC's integers
CastInt(x) == IF x <= INT_MAX THEN x ELSE x - INT_MAX - INT_MAX - 2

\* a > (uint32_t)b for 0 <= a <= INT_MAX and an int b: a negative b wraps
\* to a value of at least 2^31
GtCastU32(a, b) == IF b < 0 THEN FALSE ELSE a > b

\* (x + 1) & ~1
RoundEven(x) == ((x + 1) \div 2) * 2

Min(a, b) == IF a < b THEN a ELSE b

\* dim = (size_t)(dim * scale); dim = (dim + 1) & ~1
ScaleDim(dim, scale) == RoundEven(DoubleToUInt(DoubleMulInt(dim, scale)))

\* ------------------------------------------------------------------------
\* JPEG target size
\* ------------------------------------------------------------------------
\* writeBGRAasJPEG scaling already when the short edge equals maxDim
R3DTargetSizeGeq(width, height, maxDim) ==
  LET shortEdge == Min(width, height)
      scaled == maxDim > 0 /\ CastInt(shortEdge) >= maxDim
      scale  == DoubleDiv(maxDim, shortEdge)
      outW   == IF scaled THEN ScaleDim(width, scale)
                ELSE width
      outH   == IF scaled THEN ScaleDim(height, scale)
                ELSE height
  IN  [w |-> outW, h |-> outH, resize |-> (outW # width \/ outH # height)]

\* r3d-tool writeBGRAasJPEG: outW/outH and whether the resize step runs
R3DTargetSize(width, height, maxDim) ==
  LET shortEdge == Min(width, height)
      scaled == maxDim > 0 /\ CastInt(shortEdge) > maxDim
      scale  == DoubleDiv(maxDim, shortEdge)
      outW   == IF scaled THEN ScaleDim(width, scale)
                ELSE width
      outH   == IF scaled THEN ScaleDim(height, scale)
                ELSE height
  IN  [w |-> outW, h |-> outH, resize |-> (outW # width \/ outH # height)]

\* braw-tool WriteJPEG: dstW/dstH and needsResize
BrawTargetSize(srcW, srcH, maxDim) ==
  LET shortEdge == Min(srcW, srcH)
      scaled == maxDim > 0 /\ GtCastU32(shortEdge, maxDim)
      scale  == DoubleDiv(maxDim, shortEdge)
      dstW   == IF scaled THEN ScaleDim(srcW, scale)
                ELSE srcW
      dstH   == IF scaled THEN ScaleDim(srcH, scale)
                ELSE srcH
  IN  [w |-> dstW, h |-> dstH, resize |-> (dstW # srcW \/ dstH # srcH)]

\* ------------------------------------------------------------------------
\* Command-line arguments.  An argument is a sequence of characters; argv is
\* a sequence of arguments, argv[0] of the C code being Arg(av, 0).
\* ------------------------------------------------------------------------
Arg(av, i) == av[i + 1]
Argc(av) == Len(av)

TokProg          == <<"t">>
TokProbe         == <<"p","r","o","b","e">>
TokExtractFrame  == <<"e","x","t","r","a","c","t","-","f","r","a","m","e">>
TokExtractFrames == <<"e","x","t","r","a","c","t","-","f","r","a","m","e","s">>
TokExtractAudio  == <<"e","x","t","r","a","c","t","-","a","u","d","i","o">>
TokMaxDim        == <<"-","-","m","a","x","-","d","i","m">>

Digits == <<"0","1","2","3","4","5","6","7","8","9">>
IsDigit(c) == \E d \in 1..10 : Digits[d] = c
DigitVal(c) == (CHOOSE d \in 1..10 : Digits[d] = c) - 1
IsSpace(c) == c \in {" ", "\n", "\t", "\r"}

\* the first position at or after p that holds no white space
RECURSIVE SkipSpace(_, _)
SkipSpace(str, p) ==
  IF p <= Len(str) /\ IsSpace(str[p]) THEN SkipSpace(str, p + 1) ELSE p

\* the digits from position p on: their value, their number and the
\* position after them
RECURSIVE ScanDigits(_, _, _, _)
ScanDigits(str, p, val, n) ==
  IF p <= Len(str) /\ IsDigit(str[p])
  THEN ScanDigits(str, p + 1, 10 * val + DigitVal(str[p]), n + 1)
  ELSE [val |-> val, n |-> n, end |-> p]

\* atoi: white space, an optional sign, then digits up to the first other
\* character; 0 when there is no digit
Atoi(str) ==
  LET p    == SkipSpace(str, 1)
      sign == p <= Len(str) /\ str[p] \in {"-", "+"}
      d    == ScanDigits(str, IF sign THEN p + 1 ELSE p, 0, 0)
  IN  IF sign /\ str[p] = "-" THEN -d.val ELSE d.val

\* strtod at position p, for decimal numbers without exponent: the value
\* num/den and the position after the number (end = p when none was read)
Strtod(str, p) ==
  LET q     == SkipSpace(str, p)
      sign  == q <= Len(str) /\ str[q] \in {"-", "+"}
      neg   == sign /\ str[q] = "-"
      int   == ScanDigits(str, IF sign THEN q + 1 ELSE q, 0, 0)
      point == int.end <= Len(str) /\ str[int.end] = "."
      frac  == ScanDigits(str, int.end + 1, int.val, 0)
      some  == IF point /\ (int.n > 0 \/ frac.n > 0) THEN frac ELSE int
      den   == IF point /\ (int.n > 0 \/ frac.n > 0) THEN 10^frac.n ELSE 1
  IN  IF int.n = 0 /\ ~(point /\ frac.n > 0)
      THEN [num |-> 0, den |-> 1, end |-> p]
      ELSE [num |-> IF neg THEN -some.val ELSE some.val, den |-> den,
            end |-> some.end]

\* atof(str)
Atof(str) == [num |-> Strtod(str, 1).num, den |-> Strtod(str, 1).den]

\* the position after the first '[' (or the end of the text)
RECURSIVE AfterBracket(_, _)
AfterBracket(json, p) ==
  IF p > Len(json) THEN p
  ELSE IF json[p] = "[" THEN p + 1
  ELSE AfterBracket(json, p + 1)

\* r3d-tool cmd_extract_frames: the parse loop from position p on
RECURSIVE R3DParseLoop(_, _, _)
R3DParseLoop(json, p, ts) ==
  IF p > Len(json) THEN ts
  ELSE IF json[p] \in {" ", ",", "\n"} THEN R3DParseLoop(json, p + 1, ts)
  ELSE IF json[p] = "]" THEN ts
  ELSE LET t == Strtod(json, p)
       IN  IF t.end = p THEN ts
           ELSE R3DParseLoop(json, t.end,
                             Append(ts, [num |-> t.num, den |-> t.den]))

R3DParseTimes(json) == R3DParseLoop(json, AfterBracket(json, 1), <<>>)

\* braw-tool ParseTimesJSON: the parse loop from position p on
RECURSIVE BrawParseLoop(_, _, _)
BrawParseLoop(json, p, ts) ==
  IF p > Len(json) THEN ts
  ELSE IF json[p] \in {" ", ","} THEN BrawParseLoop(json, p + 1, ts)
  ELSE IF json[p] = "]" THEN ts
  ELSE LET val == Strtod(json, p)
       IN  IF val.end > p
           THEN BrawParseLoop(json, val.end,
                              Append(ts, [num |-> val.num, den |-> val.den]))
           ELSE BrawParseLoop(json, p + 1, ts)

ParseTimesJSON(json) == BrawParseLoop(json, AfterBracket(json, 1), <<>>)

\* --max-dim
DefaultMaxDim == 512

\* the first i in from..argc-2 with av[i] = "--max-dim", or -1
FlagIndex(av, from) ==
  LET hits == {i \in from..(Argc(av) - 2) : Arg(av, i) = TokMaxDim}
  IN  IF hits = {} THEN -1 ELSE CHOOSE i \in hits : \A j \in hits : i <= j

\* r3d-tool parseMaxDim
parseMaxDim(av, from) ==
  IF FlagIndex(av, from) = -1 THEN DefaultMaxDim
  ELSE Atoi(Arg(av, FlagIndex(av, from) + 1))

\* braw-tool main: maxDim and effectiveArgc after the --max-dim loop
BrawMaxDim(av) ==
  IF FlagIndex(av, 3) = -1 THEN DefaultMaxDim
  ELSE Atoi(Arg(av, FlagIndex(av, 3) + 1))

effectiveArgc(av) ==
  IF FlagIndex(av, 3) = -1 THEN Argc(av) ELSE FlagIndex(av, 3)

NoCall == [cmd |-> "none", args |-> <<>>, maxDim |-> 0]

\* r3d-tool main: the subcommand it calls and what it passes to it
R3DDispatch(av) ==
  LET c == Arg(av, 1) IN
  IF c = TokProbe /\ Argc(av) >= 3
  THEN [cmd |-> "probe", args |-> <<Arg(av, 2)>>, maxDim |-> 0]
  ELSE IF c = TokExtractFrame /\ Argc(av) >= 5
  THEN [cmd |-> "extract-frame",
        args |-> <<Arg(av, 2), Arg(av, 3), Arg(av, 4)>>,
        maxDim |-> parseMaxDim(av, 5)]
  ELSE IF c = TokExtractFrames /\ Argc(av) >= 5
  THEN [cmd |-> "extract-frames",
        args |-> <<Arg(av, 2), Arg(av, 3), Arg(av, 4)>>,
        maxDim |-> parseMaxDim(av, 5)]
  ELSE IF c = TokExtractAudio /\ Argc(av) >= 4
  THEN [cmd |-> "extract-audio", args |-> <<Arg(av, 2), Arg(av, 3)>>,
        maxDim |-> 0]
  ELSE NoCall

\* braw-tool main: the subcommand it calls and what it passes to it
BrawDispatch(av) ==
  LET c == Arg(av, 1) IN
  IF c = TokProbe /\ effectiveArgc(av) >= 3
  THEN [cmd |-> "probe", args |-> <<Arg(av, 2)>>, maxDim |-> 0]
  ELSE IF c = TokExtractFrame /\ effectiveArgc(av) >= 5
  THEN [cmd |-> "extract-frame",
        args |-> <<Arg(av, 2), Arg(av, 3), Arg(av, 4)>>,
        maxDim |-> BrawMaxDim(av)]
  ELSE IF c = TokExtractFrames /\ effectiveArgc(av) >= 5
  THEN [cmd |-> "extract-frames",
        args |-> <<Arg(av, 2), Arg(av, 3), Arg(av, 4)>>,
        maxDim |-> BrawMaxDim(av)]
  ELSE IF c = TokExtractAudio /\ effectiveArgc(av) >= 4
  THEN [cmd |-> "extract-audio", args |-> <<Arg(av, 2), Arg(av, 3)>>,
        maxDim |-> 0]
  ELSE NoCall

NoSize == [w |-> -1, h |-> -1, resize |-> FALSE]
JpegIdle == jpegIn = [w |-> 1, h |-> 1, maxDim |-> 0]
              /\ r3dJpeg = NoSize /\ brawJpeg = NoSize

\* the size computation of r3d-tool's writeBGRAasJPEG
writeBGRAasJPEGSize ==
  /\ r3dJpeg = NoSize
  /\ r3dJpeg' = R3DTargetSize(jpegIn.w, jpegIn.h, jpegIn.maxDim)
  /\ UNCHANGED <<jpegIn, brawJpeg>>

\* the size computation of braw-tool's WriteJPEG
WriteJPEGSize ==
  /\ brawJpeg = NoSize
  /\ brawJpeg' = BrawTargetSize(jpegIn.w, jpegIn.h, jpegIn.maxDim)
  /\ UNCHANGED <<jpegIn, r3dJpeg>>

\* ------------------------------------------------------------------------
\* Time -> frame index
\* ------------------------------------------------------------------------
\* Requested times are multiples of 1/TimeDen second and frame rates are
\* whole numbers, so that timeSec * fps is exact in double arithmetic.
TimeDen == 4

\* One more requested time, OverTicks, stands for the times so large that
\* timeSec * fps is 2^64 or more for every positive frame rate.
OverTicks == MaxTicks + 1
Beyond(ticks, fps) == ticks = OverTicks /\ fps > 0

\* the integer part of ticks * fps / TimeDen, for a non-negative product
Floor(ticks, fps) == (ticks * fps) \div TimeDen

\* frameNo >= totalFrames && totalFrames > 0 ? totalFrames - 1 : frameNo
ClampFrame(frameNo, totalFrames) ==
  IF frameNo >= totalFrames /\ totalFrames > 0 THEN totalFrames - 1
  ELSE frameNo

\* A frame index beyond every frame count of the model: it stands for the
\* values of 2^63 and more that an out-of-range conversion can produce.
HugeIdx == MaxFrames + OverTicks * MaxFps + 1

\* (uint64_t)(timeSec * fps) and (size_t)(timeSec * fps): truncation toward
\* zero.  When the truncated value is negative or is 2^64 or more, the
\* conversion is undefined and the build decides: 0 or a huge value
\* (x86-64 gives 0 for 2^64 and more and wraps a negative value; arm64
\* saturates to 0 and to 2^64-1).
CastU64(ticks, fps) ==
  IF Beyond(ticks, fps) THEN {0, HugeIdx}
  ELSE IF ticks * fps >= 0 THEN {Floor(ticks, fps)}
  ELSE IF -(ticks * fps) < TimeDen THEN {0}
  ELSE {0, HugeIdx}

\* r3d-tool decodeFrame: the frame numbers it may hand to DecodeVideoFrame
R3DFrameNo(ticks, fps, totalFrames) ==
  {ClampFrame(v, totalFrames) :
     v \in IF fps > 0 /\ ticks > 0 THEN CastU64(ticks, fps) ELSE {0}}

\* braw-tool ExtractOneFrame: the frame indexes it may hand to
\* CreateJobReadFrame
BrawFrameIndex(ticks, fps, frameCount) ==
  {ClampFrame(v, frameCount) : v \in CastU64(ticks, fps)}

NoIdx == -1
IdxIdle == idxIn = [ticks |-> 0, fps |-> 0, frameCount |-> 0]
             /\ r3dIdx = NoIdx /\ brawIdx = NoIdx

\* the index computation of r3d-tool's decodeFrame
decodeFrameIndex ==
  /\ r3dIdx = NoIdx
  /\ r3dIdx' \in R3DFrameNo(idxIn.ticks, idxIn.fps, idxIn.frameCount)
  /\ UNCHANGED <<idxIn, brawIdx>>

\* the index computation of braw-tool's ExtractOneFrame
ExtractOneFrameIndex ==
  /\ brawIdx = NoIdx
  /\ brawIdx' \in BrawFrameIndex(idxIn.ticks, idxIn.fps, idxIn.frameCount)
  /\ UNCHANGED <<idxIn, r3dIdx>>

\* ------------------------------------------------------------------------
\* r3d-tool extract-audio: the byte bookkeeping of the WAV file
\* ------------------------------------------------------------------------
\* A uint32_t is kept as two 16-bit halves, [hi, lo], so that it wraps at
\* 2^32 as the header fields and the byte counter do.  A byte count that
\* does not wrap (the bytes really in the file) has the same shape with an
\* unbounded hi.
U16 == 65536
Zero32 == [hi |-> 0, lo |-> 0]

\* x + n without wrapping, for 0 <= n < 2^31 - 2^16
WideAdd(x, n) ==
  [hi |-> x.hi + (x.lo + n) \div U16, lo |-> (x.lo + n) % U16]

\* n * k without wrapping, for 0 <= n < 2^31 and 0 <= k < 2^15
WideMul(n, k) ==
  [hi |-> (n \div U16) * k + ((n % U16) * k) \div U16,
   lo |-> ((n % U16) * k) % U16]

\* (uint32_t) of a byte count
Cast32(x) == [hi |-> x.hi % U16, lo |-> x.lo]

\* uint32_t x + n
Add32(x, n) == Cast32(WideAdd(x, n))

\* const size_t chunkSamples = 48000
chunkSamples == 48000

\* stage: where cmd_extract_audio stands; total, channels: the clip's
\* AudioSampleCount and AudioChannelCount; decoded, dataBytes: the loop's
\* counters; written: the bytes in the file after the 44-byte header;
\* dataSize, fileSize: the header's fields as they stand in the file;
\* loopEnded: the sample loop was entered and left
NoWav == [stage |-> "returned", total |-> 0, channels |-> 1, decoded |-> 0,
          dataBytes |-> Zero32, written |-> Zero32, dataSize |-> Zero32,
          fileSize |-> Zero32, loopEnded |-> FALSE]
WavIdle == wav = NoWav

\* the header update that leaves the fileSize placeholder in place
UpdateHeaderDataOnly(w) == [w EXCEPT !.dataSize = w.dataBytes]

\* hdr.dataSize = dataBytes; hdr.fileSize = 36 + dataBytes; and the header
\* written again at offset 0
UpdateHeader(w) ==
  [w EXCEPT !.dataSize = w.dataBytes, !.fileSize = Add32(w.dataBytes, 36)]

\* the counts DecodeAudio / DecodeFloatAudio may hand back in got: nothing,
\* all that was asked for, or (on the short clips) any count below it
GotCounts(w, want) ==
  {0, want} \cup {g \in 1..MaxSamples : g < want /\ w.total <= MaxSamples}

\* the placeholder header is written (all sizes 0) and the buffer allocated;
\* a failed allocation returns 1 with the placeholder in the file
wavOpen ==
  /\ wav.stage = "open"
  /\ \E ok \in BOOLEAN :
       wav' = [wav EXCEPT !.stage = IF ok THEN "loop" ELSE "returned"]

\* one pass of the sample loop
wavRead ==
  /\ wav.stage = "loop" /\ wav.decoded < wav.total
  /\ LET want == Min(chunkSamples, wav.total - wav.decoded) IN
     \E ok \in BOOLEAN, got \in GotCounts(wav, want) :
       IF ~ok \/ got = 0
       THEN wav' = [wav EXCEPT !.stage = "close", !.loopEnded = TRUE]
       ELSE LET wb == got * wav.channels * 2 IN
            wav' = [wav EXCEPT !.written = WideAdd(@, wb),
                               !.dataBytes = Add32(@, wb),
                               !.decoded = @ + got]

\* the loop ends with all samples decoded
wavLoopEnd ==
  /\ wav.stage = "loop" /\ wav.decoded >= wav.total
  /\ wav' = [wav EXCEPT !.stage = "close", !.loopEnded = TRUE]

\* the header update and the return
wavClose ==
  /\ wav.stage = "close"
  /\ wav' = [UpdateHeader(wav) EXCEPT !.stage = "returned"]

\* ------------------------------------------------------------------------
\* r3d-tool extract-audio: one audio value -> one 16-bit PCM sample
\* ------------------------------------------------------------------------
\* (int16_t) of an int: the value modulo 2^16, taken as signed
CastInt16(v) ==
  IF v % 65536 >= 32768 THEN (v % 65536) - 65536 ELSE v % 65536

\* a conversion that reads the value as little-endian
IntToPcmLittleEndian(p) == CastInt16(p[4] * 256 + p[3])

\* (int16_t)((p[0] << 8) | p[1]), p[0..3] being seq[1..4]: the two bytes
\* share no bit, so the bitwise or is their sum
IntToPcm(p) == CastInt16(p[1] * 256 + p[2])

\* A float is [kind, neg, m, e]: a NaN, an infinity (kind "nan", "inf") or
\* the number (-1)^neg * m * 2^e with 0 <= m < 2^24 ("num").
FLT_MANT_DIG == 24
FloatOne(neg) == [kind |-> "num", neg |-> neg, m |-> 8388608, e |-> -23]

\* |f| > 1.0f, for a float that is no NaN
MagnitudeAboveOne(f) ==
  \/ f.kind = "inf"
  \/ /\ f.kind = "num" /\ f.m > 0
     /\ IF f.e >= 0 THEN f.m > 1 \/ f.e > 0
        ELSE -f.e <= FLT_MANT_DIG /\ f.m > 2^(-f.e)

\* if (s > 1.0f) s = 1.0f; if (s < -1.0f) s = -1.0f;  both comparisons are
\* false for a NaN, which passes unchanged
Clamp(f) ==
  IF f.kind = "nan" THEN f
  ELSE IF ~f.neg /\ MagnitudeAboveOne(f) THEN FloatOne(FALSE)
  ELSE IF f.neg /\ MagnitudeAboveOne(f) THEN FloatOne(TRUE)
  ELSE f

\* the number of bits of n >= 0
BitLen(n) ==
  CHOOSE k \in 0..30 : n < 2^k /\ (k = 0 \/ n >= 2^(k - 1))

\* s * 32767.0f in float arithmetic, for a number s: the exact product
\* m * 32767 = hi * 2^15 + lo is rounded to FLT_MANT_DIG bits, to nearest,
\* ties to even
MulFloat32767(f) ==
  LET q    == f.m \div 32768
      r    == f.m % 32768
      hi   == IF r = 0 THEN f.m - q ELSE f.m - q - 1
      lo   == IF r = 0 THEN 0 ELSE 32768 - r
      len  == IF hi > 0 THEN BitLen(hi) + 15 ELSE BitLen(lo)
      d    == IF len > FLT_MANT_DIG THEN len - FLT_MANT_DIG ELSE 0
      keep == hi * 2^(15 - d) + lo \div 2^d
      rest == lo % 2^d
      up   == d > 0 /\ (2 * rest > 2^d \/ (2 * rest = 2^d /\ keep % 2 = 1))
  IN  [kind |-> "num", neg |-> f.neg,
       m |-> IF up THEN keep + 1 ELSE keep, e |-> f.e + d]

\* the integer part of a number, toward zero
TruncFloat(f) ==
  LET mag == IF f.e >= 0 THEN f.m * 2^f.e
             ELSE IF -f.e > FLT_MANT_DIG + 1 THEN 0
             ELSE f.m \div 2^(-f.e)
  IN  IF f.neg THEN -mag ELSE mag

\* (int16_t) of a NaN is undefined and the build decides: 0 where the
\* conversion is the scalar one and the low 16 bits are kept (cvttss2si on
\* x86-64, fcvtzs on arm64), -32768 where a vector conversion's 0x80000000
\* is narrowed with signed saturation
NanToInt16 == {0, -32768}

\* out16[i] = (int16_t)(s * 32767.0f) after the clamp: the values the build
\* may emit
FloatToPcm(f) ==
  LET s == Clamp(f) IN
  IF s.kind = "nan" THEN NanToInt16
  ELSE {CastInt16(TruncFloat(MulFloat32767(s)))}

NoFloat == [kind |-> "num", neg |-> FALSE, m |-> 0, e |-> 0]
PcmIdle ==
  /\ intIn = <<0, 0, 0, 0>> /\ intPcm = <<>>
  /\ fltIn = NoFloat /\ fltPcm = <<>>

\* the integer branch of the conversion loop, for one value
intConvert ==
  /\ intPcm = <<>>
  /\ intPcm' = <<IntToPcm(intIn)>>
  /\ UNCHANGED <<intIn, fltIn, fltPcm>>

\* the float branch of the conversion loop, for one value
floatConvert ==
  /\ fltPcm = <<>>
  /\ \E v \in FloatToPcm(fltIn) : fltPcm' = <<v>>
  /\ UNCHANGED <<intIn, intPcm, fltIn>>

\* ------------------------------------------------------------------------
\* A run of one tool
\* ------------------------------------------------------------------------
NoExit == -1
NoCallback == [success |-> FALSE, pending |-> "none"]
\* total/channels/bits: the clip's sample count, channel count, bit depth;
\* decoded: samples read so far; dataBytes: the byte counter of r3d-tool;
\* hdrData/hdrFile: the data-size and file-size fields of the WAV header in
\* the file; written: bytes in the file after the header; broke: the read
\* loop ended on a failed or empty read
NoAudio == [total |-> 0, channels |-> 0, bits |-> 0, decoded |-> 0,
            dataBytes |-> 0, hdrData |-> 0, hdrFile |-> 0, written |-> 0,
            broke |-> FALSE]

RunIdle ==
  /\ tool = "r3d" /\ argv = <<TokProg>> /\ pc = "done" /\ call = NoCall
  /\ times = <<>> /\ stdout = <<>> /\ stderr = <<>> /\ exit = 1
  /\ sdk = <<>> /\ attempted = <<>> /\ rets = <<>> /\ cb = NoCallback
  /\ audio = NoAudio

\* a FrameCallback whose result wrongly starts as a success
NewCallbackSucceeded == [success |-> TRUE, pending |-> "read"]

\* the FrameCallback ExtractOneFrame constructs, its read job submitted
NewCallback == [success |-> FALSE, pending |-> "read"]

\* return code: the run ends with this exit code
Return(code) == exit' = code /\ pc' = "done"

\* the outcome of a chain of calls: the calls up to and including the one
\* named "failed" are made and that one fails ("ok": all are made and succeed)
RECURSIVE CallLog(_, _)
CallLog(calls, failed) ==
  IF calls = <<>> THEN <<>>
  ELSE IF Head(calls) = failed THEN << <<Head(calls), FALSE>> >>
  ELSE << <<Head(calls), TRUE>> >> \o CallLog(Tail(calls), failed)

Outcomes(calls) == {calls[k] : k \in 1..Len(calls)} \cup {"ok"}

\* the JSON documents of probe and of braw-tool's extract-audio, their
\* metadata fields left out
ProbeJson == <<"{", "}", "\n">>
AudioJson == <<"{", "}", "\n">>

\* %04zu
RECURSIVE Decimal(_)
Decimal(n) ==
  IF n < 10 THEN <<Digits[n + 1]>>
  ELSE Decimal(n \div 10) \o <<Digits[(n % 10) + 1]>>

Pad4(n) == [k \in 1..(4 - Len(Decimal(n))) |-> "0"] \o Decimal(n)

\* snprintf(path, ..., "%s/frame_%04zu.jpg", outputDir, i), for paths that
\* fit the buffer
FramePath(outputDir, i) ==
  outputDir \o <<"/","f","r","a","m","e","_">> \o Pad4(i)
            \o <<".","j","p","g">>

\* a loop that prints nothing for a failed frame
FrameEntryNoNull(outputDir, i, ret) ==
  IF ret # 0 THEN <<>>
  ELSE (IF i > 0 THEN <<",">> ELSE <<>>)
         \o <<"\"">> \o FramePath(outputDir, i) \o <<"\"">>

\* what one pass of the extract-frames loop prints for timestamp i
FrameEntry(outputDir, i, ret) ==
  (IF i > 0 THEN <<",">> ELSE <<>>)
    \o (IF ret = 0 THEN <<"\"">> \o FramePath(outputDir, i) \o <<"\"">>
        ELSE <<"n","u","l","l">>)

\* an array that is never closed
FramesTailOpen(more) == <<>>

\* what extract-frames prints after a pass of its loop: the closing bracket
\* once no timestamp is left
FramesTail(more) == IF more THEN <<>> ELSE <<"]", "\n">>

\* an exit code that reports failed frames
FramesExitCodeAnyFailed(frameRets) ==
  IF \E k \in 1..Len(frameRets) : frameRets[k] # 0 THEN 1 ELSE 0

\* the exit code of extract-frames once its loop has run
FramesExitCode(frameRets) == 0

\* an exit code that reports a read loop ended early
AudioExitCodeBroke(broke) == IF broke THEN 1 ELSE 0

\* the exit code of extract-audio once its read loop has ended
AudioExitCode(broke) == 0

\* the pass of the extract-frames loop after the frame extraction returned
PrintFrameEntry ==
  LET i   == Len(rets) - 1
      ret == rets[Len(rets)]
      out == stdout \o FrameEntry(call.args[3], i, ret)
  IN  /\ stderr' = IF ret = 0 THEN stderr
                   ELSE Append(stderr, "Warning: frame failed")
      /\ stdout' = out \o FramesTail(Len(rets) < Len(times))
      /\ IF Len(rets) < Len(times)
         THEN pc' = "extract-one" /\ exit' = exit
         ELSE Return(FramesExitCode(rets))
      /\ UNCHANGED <<tool, argv, call, times, sdk, attempted, rets, cb, audio>>

\* where the frame extraction returns to
FrameReturn == IF call.cmd = "extract-frame" THEN "frame-return"
               ELSE "frames-print"

\* ---------------------------- r3d-tool ----------------------------------
\* main up to the call of the subcommand
main_r3d ==
  /\ tool = "r3d" /\ pc = "main"
  /\ IF Argc(argv) < 2
     THEN /\ stderr' = Append(stderr, "Usage")
          /\ Return(1)
          /\ UNCHANGED <<call, sdk>>
     ELSE \E ok \in BOOLEAN :
            /\ sdk' = Append(sdk, <<"InitializeSdk", ok>>)
            /\ IF ~ok
               THEN /\ stderr' = Append(stderr, "Error: R3D SDK init failed")
                    /\ Return(1)
                    /\ call' = call
               ELSE IF R3DDispatch(argv) = NoCall
               THEN /\ stderr' = Append(stderr, "Unknown or incomplete command")
                    /\ Return(1)
                    /\ call' = call
               ELSE /\ call' = R3DDispatch(argv)
                    /\ pc' = R3DDispatch(argv).cmd
                    /\ UNCHANGED <<stderr, exit>>
  /\ UNCHANGED <<tool, argv, times, stdout, attempted, rets, cb, audio>>

cmd_probe ==
  /\ tool = "r3d" /\ pc = "probe"
  /\ \E ok \in BOOLEAN :
       /\ sdk' = Append(sdk, <<"LoadFrom", ok>>)
       /\ IF ok
          THEN /\ stdout' = stdout \o ProbeJson
               /\ Return(0)
               /\ stderr' = stderr
          ELSE /\ stderr' = Append(stderr, "Error: Cannot load file")
               /\ Return(1)
               /\ stdout' = stdout
  /\ UNCHANGED <<tool, argv, call, times, attempted, rets, cb, audio>>

\* cmd_extract_frame up to the call of decodeFrame
cmd_extract_frame ==
  /\ tool = "r3d" /\ pc = "extract-frame"
  /\ \E ok \in BOOLEAN :
       /\ sdk' = Append(sdk, <<"LoadFrom", ok>>)
       /\ IF ok
          THEN /\ times' = <<Atof(call.args[2])>>
               /\ pc' = "extract-one"
               /\ UNCHANGED <<stderr, exit>>
          ELSE /\ stderr' = Append(stderr, "Error: Cannot load file")
               /\ Return(1)
               /\ times' = times
  /\ UNCHANGED <<tool, argv, call, stdout, attempted, rets, cb, audio>>

\* decodeFrame for the next timestamp: allocation, DecodeVideoFrame and the
\* JPEG writer, any of which may fail
R3DDecodeCalls == <<"alignedAlloc", "DecodeVideoFrame", "writeBGRAasJPEG">>

decodeFrame ==
  /\ tool = "r3d" /\ pc = "extract-one"
  /\ \E failed \in Outcomes(R3DDecodeCalls) :
       /\ sdk' = sdk \o CallLog(R3DDecodeCalls, failed)
       /\ rets' = Append(rets, IF failed = "ok" THEN 0 ELSE 1)
       /\ stderr' = IF failed = "ok" THEN stderr
                    ELSE Append(stderr, "Error: decodeFrame failed")
  /\ attempted' = Append(attempted, times[Len(rets) + 1])
  /\ pc' = FrameReturn
  /\ UNCHANGED <<tool, argv, call, times, stdout, exit, cb, audio>>

\* cmd_extract_frame after decodeFrame returned r
cmd_extract_frame_return ==
  /\ tool = "r3d" /\ pc = "frame-return"
  /\ Return(rets[1])
  /\ UNCHANGED <<tool, argv, call, times, stdout, stderr, sdk, attempted, rets, cb, audio>>

\* cmd_extract_frames up to its loop
cmd_extract_frames ==
  /\ tool = "r3d" /\ pc = "extract-frames"
  /\ IF R3DParseTimes(call.args[2]) = <<>>
     THEN /\ stderr' = Append(stderr, "Error: no timestamps in JSON array")
          /\ Return(1)
          /\ UNCHANGED <<times, stdout, sdk>>
     ELSE \E ok \in BOOLEAN :
            /\ sdk' = Append(sdk, <<"LoadFrom", ok>>)
            /\ IF ok
               THEN /\ times' = R3DParseTimes(call.args[2])
                    /\ stdout' = stdout \o <<"[">>
                    /\ pc' = "extract-one"
                    /\ UNCHANGED <<stderr, exit>>
               ELSE /\ stderr' = Append(stderr, "Error: Cannot load file")
                    /\ Return(1)
                    /\ UNCHANGED <<times, stdout>>
  /\ UNCHANGED <<tool, argv, call, attempted, rets, cb, audio>>

\* one pass of the loop of cmd_extract_frames after decodeFrame returned
cmd_extract_frames_print ==
  /\ tool = "r3d" /\ pc = "frames-print"
  /\ PrintFrameEntry

\* cmd_extract_audio up to its read loop (byte counts stay far below 2^32
\* within the bounds, so the uint32_t fields do not wrap)
R3DAudioCalls == <<"LoadFrom", "AudioChannelCount", "fopen", "alignedAlloc">>

cmd_extract_audio ==
  /\ tool = "r3d" /\ pc = "extract-audio"
  /\ \E failed \in Outcomes(R3DAudioCalls) :
       /\ sdk' = sdk \o CallLog(R3DAudioCalls, failed)
       /\ IF failed = "ok"
          THEN /\ \E n \in 0..MaxSamples, ch \in 1..MaxChannels :
                    audio' = [NoAudio EXCEPT !.total = n, !.channels = ch,
                                             !.bits = 16]
               /\ pc' = "audio-loop"
               /\ UNCHANGED <<stderr, exit>>
          ELSE /\ stderr' = Append(stderr, "Error: extract-audio failed")
               /\ Return(1)
               /\ audio' = audio
  /\ UNCHANGED <<tool, argv, call, times, stdout, attempted, rets, cb>>

\* one pass of the read loop of cmd_extract_audio
cmd_extract_audio_read ==
  /\ tool = "r3d" /\ pc = "audio-loop" /\ audio.decoded < audio.total
  /\ LET want == Min(ChunkSamples, audio.total - audio.decoded) IN
     \E ok \in BOOLEAN, got \in 0..want :
       /\ sdk' = Append(sdk, <<"DecodeAudio", ok>>)
       /\ IF ~ok \/ got = 0
          THEN /\ audio' = [audio EXCEPT !.broke = TRUE]
               /\ pc' = "audio-close"
          ELSE /\ audio' = [audio EXCEPT
                    !.decoded = @ + got,
                    !.written = @ + got * audio.channels * 2,
                    !.dataBytes = @ + got * audio.channels * 2]
               /\ pc' = pc
  /\ UNCHANGED <<tool, argv, call, times, stdout, stderr, exit, attempted, rets, cb>>

\* cmd_extract_audio after its read loop: the header update and the return
cmd_extract_audio_close ==
  /\ tool = "r3d"
  /\ \/ pc = "audio-loop" /\ audio.decoded >= audio.total
     \/ pc = "audio-close"
  /\ audio' = [audio EXCEPT !.hdrData = audio.dataBytes,
                             !.hdrFile = 36 + audio.dataBytes]
  /\ Return(AudioExitCode(audio.broke))
  /\ UNCHANGED <<tool, argv, call, times, stdout, stderr, sdk, attempted, rets, cb>>

\* ---------------------------- braw-tool ---------------------------------
\* main up to the call of the subcommand
main_braw ==
  /\ tool = "braw" /\ pc = "main"
  /\ IF Argc(argv) < 3 \/ BrawDispatch(argv) = NoCall
     THEN /\ stderr' = Append(stderr, "Usage")
          /\ Return(1)
          /\ call' = call
     ELSE /\ call' = BrawDispatch(argv)
          /\ pc' = BrawDispatch(argv).cmd
          /\ UNCHANGED <<stderr, exit>>
  /\ UNCHANGED <<tool, argv, times, stdout, sdk, attempted, rets, cb, audio>>

\* CreateFactory, CreateCodec and OpenClip, with which every subcommand begins
BrawOpenCalls == <<"CreateFactory", "CreateCodec", "OpenClip">>

CmdProbe ==
  /\ tool = "braw" /\ pc = "probe"
  /\ \E failed \in Outcomes(BrawOpenCalls) :
       /\ sdk' = sdk \o CallLog(BrawOpenCalls, failed)
       /\ IF failed = "ok"
          THEN /\ stdout' = stdout \o ProbeJson
               /\ Return(0)
               /\ stderr' = stderr
          ELSE /\ stderr' = Append(stderr, "Failed to open")
               /\ Return(1)
               /\ stdout' = stdout
  /\ UNCHANGED <<tool, argv, call, times, attempted, rets, cb, audio>>

\* CmdExtractFrame up to the call of ExtractOneFrame
CmdExtractFrame ==
  /\ tool = "braw" /\ pc = "extract-frame"
  /\ \E failed \in Outcomes(BrawOpenCalls) :
       /\ sdk' = sdk \o CallLog(BrawOpenCalls, failed)
       /\ IF failed = "ok"
          THEN /\ times' = <<Atof(call.args[2])>>
               /\ pc' = "extract-one"
               /\ UNCHANGED <<stderr, exit>>
          ELSE /\ stderr' = Append(stderr, "Failed to open")
               /\ Return(1)
               /\ times' = times
  /\ UNCHANGED <<tool, argv, call, stdout, attempted, rets, cb, audio>>

\* ExtractOneFrame up to FlushJobs: the callback is set and the read job
\* created and submitted, any of which may fail
BrawSubmitCalls == <<"SetCallback", "CreateJobReadFrame", "Submit">>

ExtractOneFrame ==
  /\ tool = "braw" /\ pc = "extract-one"
  /\ \E failed \in Outcomes(BrawSubmitCalls) :
       /\ sdk' = sdk \o CallLog(BrawSubmitCalls, failed)
       /\ IF failed = "ok"
          THEN /\ cb' = NewCallback
               /\ pc' = "FlushJobs"
               /\ UNCHANGED <<rets, stderr>>
          ELSE /\ rets' = Append(rets, 1)
               /\ stderr' = Append(stderr, "Failed to submit")
               /\ pc' = FrameReturn
               /\ cb' = cb
  /\ attempted' = Append(attempted, times[Len(rets) + 1])
  /\ UNCHANGED <<tool, argv, call, times, stdout, exit, audio>>

\* FrameCallback::ReadComplete, called by the SDK with the status of the read
ReadComplete ==
  /\ tool = "braw" /\ pc = "FlushJobs" /\ cb.pending = "read"
  /\ \E hr \in BOOLEAN, job \in BOOLEAN :
       IF ~hr
       THEN /\ sdk' = Append(sdk, <<"ReadComplete", FALSE>>)
            /\ cb' = [cb EXCEPT !.pending = "none"]
       ELSE /\ sdk' = sdk \o << <<"ReadComplete", TRUE>>,
                               <<"CreateJobDecodeAndProcessFrame", job>> >>
            /\ cb' = [cb EXCEPT !.pending = IF job THEN "process" ELSE "none"]
  /\ UNCHANGED <<tool, argv, pc, call, times, stdout, stderr, exit, attempted, rets, audio>>

\* FrameCallback::ProcessComplete, called by the SDK with the status of the
\* decode; on success it writes the JPEG
ProcessComplete ==
  /\ tool = "braw" /\ pc = "FlushJobs" /\ cb.pending = "process"
  /\ \E hr \in BOOLEAN, written \in BOOLEAN :
       IF ~hr
       THEN /\ sdk' = Append(sdk, <<"ProcessComplete", FALSE>>)
            /\ cb' = [cb EXCEPT !.pending = "none"]
       ELSE /\ sdk' = sdk \o << <<"ProcessComplete", TRUE>>,
                               <<"WriteJPEG", written>> >>
            /\ cb' = [success |-> written, pending |-> "none"]
  /\ UNCHANGED <<tool, argv, pc, call, times, stdout, stderr, exit, attempted, rets, audio>>

\* ExtractOneFrame after FlushJobs returned
ExtractOneFrame_return ==
  /\ tool = "braw" /\ pc = "FlushJobs" /\ cb.pending = "none"
  /\ rets' = Append(rets, IF cb.success THEN 0 ELSE 1)
  /\ stderr' = IF cb.success THEN stderr
               ELSE Append(stderr, "Frame decode failed")
  /\ pc' = FrameReturn
  /\ UNCHANGED <<tool, argv, call, times, stdout, exit, sdk, attempted, cb,
                 audio>>

\* CmdExtractFrame after ExtractOneFrame returned ret
CmdExtractFrame_return ==
  /\ tool = "braw" /\ pc = "frame-return"
  /\ Return(rets[1])
  /\ UNCHANGED <<tool, argv, call, times, stdout, stderr, sdk, attempted, rets, cb, audio>>

\* CmdExtractFrames up to its loop
CmdExtractFrames ==
  /\ tool = "braw" /\ pc = "extract-frames"
  /\ IF ParseTimesJSON(call.args[2]) = <<>>
     THEN /\ stderr' = Append(stderr, "No times provided")
          /\ Return(1)
          /\ UNCHANGED <<times, stdout, sdk>>
     ELSE \E failed \in Outcomes(BrawOpenCalls) :
            /\ sdk' = sdk \o CallLog(BrawOpenCalls, failed)
            /\ IF failed = "ok"
               THEN /\ times' = ParseTimesJSON(call.args[2])
                    /\ stdout' = stdout \o <<"[">>
                    /\ pc' = "extract-one"
                    /\ UNCHANGED <<stderr, exit>>
               ELSE /\ stderr' = Append(stderr, "Failed to open")
                    /\ Return(1)
                    /\ UNCHANGED <<times, stdout>>
  /\ UNCHANGED <<tool, argv, call, attempted, rets, cb, audio>>

\* one pass of the loop of CmdExtractFrames after ExtractOneFrame returned
CmdExtractFrames_print ==
  /\ tool = "braw" /\ pc = "frames-print"
  /\ PrintFrameEntry

\* CmdExtractAudio up to its read loop: the header is written with the sizes
\* the clip announces
BrawAudioCalls == <<"CreateFactory", "CreateCodec", "OpenClip",
                    "QueryInterface", "GetAudioSampleCount", "fopen">>

CmdExtractAudio ==
  /\ tool = "braw" /\ pc = "extract-audio"
  /\ \E failed \in Outcomes(BrawAudioCalls) :
       /\ sdk' = sdk \o CallLog(BrawAudioCalls, failed)
       /\ IF failed = "ok"
          THEN /\ \E n \in 1..MaxSamples, ch \in 1..MaxChannels :
                    audio' = [NoAudio EXCEPT
                                !.total = n, !.channels = ch, !.bits = 16,
                                !.hdrData = (n * ch * 16) \div 8,
                                !.hdrFile = 36 + (n * ch * 16) \div 8]
               /\ pc' = "audio-loop"
               /\ UNCHANGED <<stderr, exit>>
          ELSE /\ stderr' = Append(stderr, "extract-audio failed")
               /\ Return(1)
               /\ audio' = audio
  /\ UNCHANGED <<tool, argv, call, times, stdout, attempted, rets, cb>>

\* one pass of the read loop of CmdExtractAudio
CmdExtractAudio_read ==
  /\ tool = "braw" /\ pc = "audio-loop" /\ audio.decoded < audio.total
  /\ LET most == Min(ChunkSamples, audio.total - audio.decoded) IN
     \E ok \in BOOLEAN, samplesRead \in 0..most :
       /\ sdk' = Append(sdk, <<"GetAudioSamples", ok>>)
       /\ IF ~ok \/ samplesRead = 0
          THEN /\ audio' = [audio EXCEPT !.broke = TRUE]
               /\ pc' = "audio-close"
          ELSE /\ audio' = [audio EXCEPT
                    !.decoded = @ + samplesRead,
                    !.written = @ + (samplesRead * audio.channels
                                       * audio.bits) \div 8]
               /\ pc' = pc
  /\ UNCHANGED <<tool, argv, call, times, stdout, stderr, exit, attempted, rets, cb>>

\* CmdExtractAudio after its read loop: the metadata JSON and the return
CmdExtractAudio_close ==
  /\ tool = "braw"
  /\ \/ pc = "audio-loop" /\ audio.decoded >= audio.total
     \/ pc = "audio-close"
  /\ stdout' = stdout \o AudioJson
  /\ Return(AudioExitCode(audio.broke))
  /\ UNCHANGED <<tool, argv, call, times, stderr, sdk, attempted, rets, cb, audio>>

\* ------------------------------------------------------------------------
\* The command lines of the model
\* ------------------------------------------------------------------------
ArgFile == <<"c">>
JsonTexts == { <<"[","3",",","1",",","2","]">>, <<"[","1",",","x","5","]">>,
               <<"[","]">> }
SecondArgs == {<<"2">>, TokMaxDim} \cup JsonTexts
ThirdArgs == {<<"o">>, TokMaxDim}
DimArgs == {<<"2","5","6">>, <<"-","1">>, <<"x">>}
CmdArgs == {TokProbe, TokExtractFrame, TokExtractFrames, TokExtractAudio,
            <<"x">>}
Positionals ==
  {<<>>, <<ArgFile>>} \cup {<<ArgFile, a>> : a \in SecondArgs}
    \cup {<<ArgFile, a, b>> : a \in SecondArgs, b \in ThirdArgs}
Trailers == {<<>>, <<TokMaxDim>>} \cup {<<TokMaxDim, n>> : n \in DimArgs}
ArgvSet ==
  { <<TokProg>> } \cup
  { <<TokProg, c>> \o pos \o tail :
      c \in CmdArgs, pos \in Positionals, tail \in Trailers }

vars == <<numVars, runVars>>

\* --- the JPEG writers' size computation on every bounded input ----------
InitJpeg ==
  /\ jpegIn \in [w : 1..MaxDimSrc, h : 1..MaxDimSrc, maxDim : -1..MaxMaxDim]
  /\ r3dJpeg = NoSize /\ brawJpeg = NoSize
  /\ IdxIdle /\ WavIdle /\ PcmIdle /\ RunIdle
NextJpeg ==
  \/ writeBGRAasJPEGSize /\ UNCHANGED <<idxIn, r3dIdx, brawIdx, wav, pcmVars, runVars>>
  \/ WriteJPEGSize /\ UNCHANGED <<idxIn, r3dIdx, brawIdx, wav, pcmVars, runVars>>
SpecJpeg == InitJpeg /\ [][NextJpeg]_vars

\* --- the frame-index computation on every bounded input -----------------
InitIdx ==
  /\ idxIn \in [ticks : -MaxTicks..OverTicks, fps : 0..MaxFps,
                frameCount : 0..MaxFrames]
  /\ r3dIdx = NoIdx /\ brawIdx = NoIdx
  /\ JpegIdle /\ WavIdle /\ PcmIdle /\ RunIdle
NextIdx ==
  \/ decodeFrameIndex /\ UNCHANGED <<jpegIn, r3dJpeg, brawJpeg, wav, pcmVars, runVars>>
  \/ ExtractOneFrameIndex /\ UNCHANGED <<jpegIn, r3dJpeg, brawJpeg, wav, pcmVars, runVars>>
SpecIdx == InitIdx /\ [][NextIdx]_vars

\* --- r3d-tool's extract-audio on short clips and on clips whose PCM data
\* --- comes close to 2^32 bytes (two channels, about 2^30 samples) --------
LongTotals == {1073741824 - 10, 1073741824 - 9, 1073741824}
WavClips ==
  [total : 0..MaxSamples, channels : 1..MaxChannels]
    \cup [total : LongTotals, channels : {2}]
InitWav ==
  /\ \E c \in WavClips :
       wav = [NoWav EXCEPT !.stage = "open", !.total = c.total,
                           !.channels = c.channels]
  /\ JpegIdle /\ IdxIdle /\ PcmIdle /\ RunIdle
NextWav ==
  \/ wavOpen /\ UNCHANGED <<jpegIn, r3dJpeg, brawJpeg, idxIn, r3dIdx, brawIdx, pcmVars, runVars>>
  \/ wavRead /\ UNCHANGED <<jpegIn, r3dJpeg, brawJpeg, idxIn, r3dIdx, brawIdx, pcmVars, runVars>>
  \/ wavLoopEnd /\ UNCHANGED <<jpegIn, r3dJpeg, brawJpeg, idxIn, r3dIdx, brawIdx, pcmVars, runVars>>
  \/ wavClose /\ UNCHANGED <<jpegIn, r3dJpeg, brawJpeg, idxIn, r3dIdx, brawIdx, pcmVars, runVars>>
SpecWav == InitWav /\ [][NextWav]_vars

\* --- the integer sample conversion on every bounded input ---------------
AudioBytes ==
  (0..MaxByteStep) \cup ((127 - MaxByteStep)..(128 + MaxByteStep))
    \cup ((255 - MaxByteStep)..255)
InitInt ==
  /\ intIn \in [1..4 -> AudioBytes] /\ intPcm = <<>>
  /\ fltIn = NoFloat /\ fltPcm = <<>>
  /\ JpegIdle /\ IdxIdle /\ WavIdle /\ RunIdle
NextInt ==
  intConvert /\ UNCHANGED <<jpegIn, r3dJpeg, brawJpeg, idxIn, r3dIdx, brawIdx, wav, runVars>>
SpecInt == InitInt /\ [][NextInt]_vars

\* --- the float sample conversion on every bounded input -----------------
\* the mantissas of the floats nearest 1/32767, 3/32767 and 5/32767 (times a
\* power of two): their products with 32767 round up to a whole number
StepMantissas == {8388864, 12583296, 10486080}
Mantissas ==
  {0, 1} \cup StepMantissas
    \cup {8388608 + j : j \in 0..MaxMantStep}
    \cup {16777215 - j : j \in 0..MaxMantStep}
FloatSamples ==
  [kind : {"num"}, neg : BOOLEAN, m : Mantissas, e : (-MaxExp)..(-21)]
    \cup [kind : {"num"}, neg : BOOLEAN, m : {1}, e : {-149}]
    \cup [kind : {"inf"}, neg : BOOLEAN, m : {0}, e : {0}]
    \cup [kind : {"nan"}, neg : BOOLEAN, m : {0}, e : {0}]
InitFloat ==
  /\ fltIn \in FloatSamples /\ fltPcm = <<>>
  /\ intIn = <<0, 0, 0, 0>> /\ intPcm = <<>>
  /\ JpegIdle /\ IdxIdle /\ WavIdle /\ RunIdle
NextFloat ==
  floatConvert /\ UNCHANGED <<jpegIn, r3dJpeg, brawJpeg, idxIn, r3dIdx, brawIdx, wav, runVars>>
SpecFloat == InitFloat /\ [][NextFloat]_vars

\* --- a run of either tool on every command line of the model ------------
Init ==
  /\ tool \in {"r3d", "braw"} /\ argv \in ArgvSet
  /\ pc = "main" /\ call = NoCall /\ times = <<>>
  /\ stdout = <<>> /\ stderr = <<>> /\ exit = NoExit
  /\ sdk = <<>> /\ attempted = <<>> /\ rets = <<>> /\ cb = NoCallback
  /\ audio = NoAudio
  /\ JpegIdle /\ IdxIdle /\ WavIdle /\ PcmIdle
Next ==
  \/ main_r3d /\ UNCHANGED numVars
  \/ cmd_probe /\ UNCHANGED numVars
  \/ cmd_extract_frame /\ UNCHANGED numVars
  \/ decodeFrame /\ UNCHANGED numVars
  \/ cmd_extract_frame_return /\ UNCHANGED numVars
  \/ cmd_extract_frames /\ UNCHANGED numVars
  \/ cmd_extract_frames_print /\ UNCHANGED numVars
  \/ cmd_extract_audio /\ UNCHANGED numVars
  \/ cmd_extract_audio_read /\ UNCHANGED numVars
  \/ cmd_extract_audio_close /\ UNCHANGED numVars
  \/ main_braw /\ UNCHANGED numVars
  \/ CmdProbe /\ UNCHANGED numVars
  \/ CmdExtractFrame /\ UNCHANGED numVars
  \/ ExtractOneFrame /\ UNCHANGED numVars
  \/ ReadComplete /\ UNCHANGED numVars
  \/ ProcessComplete /\ UNCHANGED numVars
  \/ ExtractOneFrame_return /\ UNCHANGED numVars
  \/ CmdExtractFrame_return /\ UNCHANGED numVars
  \/ CmdExtractFrames /\ UNCHANGED numVars
  \/ CmdExtractFrames_print /\ UNCHANGED numVars
  \/ CmdExtractAudio /\ UNCHANGED numVars
  \/ CmdExtractAudio_read /\ UNCHANGED numVars
  \/ CmdExtractAudio_close /\ UNCHANGED numVars
Spec == Init /\ [][Next]_vars

\* ------------------------------------------------------------------------
\* Properties of the JPEG target size (SpecJpeg)
\* ------------------------------------------------------------------------
ShortEdgeOf(in) == Min(in.w, in.h)
Downscaled(in) == in.maxDim > 0 /\ ShortEdgeOf(in) > in.maxDim

\* the size the short-edge rule prescribes for one dimension
ExactScaled(srcDim, in) == RoundEven((srcDim * in.maxDim) \div ShortEdgeOf(in))

ShortEdgeRule(in, out) ==
  /\ out.w % 2 = 0 /\ out.h % 2 = 0
  /\ (IF in.w <= in.h THEN out.w ELSE out.h) = RoundEven(in.maxDim)
  /\ out.w = ExactScaled(in.w, in) /\ out.h = ExactScaled(in.h, in)
  /\ out.w <= in.w /\ out.h <= in.h

\* C5: whenever the source short edge exceeds maxDim > 0, either tool's
\* output dimensions are even, the output short edge is maxDim rounded up to
\* even, and each output dimension is floor(srcDim * maxDim / shortEdge)
\* rounded up to even and at most the source dimension.
C5_ShortEdgeScaledToMaxDim ==
  /\ (r3dJpeg # NoSize /\ Downscaled(jpegIn)) => ShortEdgeRule(jpegIn, r3dJpeg)
  /\ (brawJpeg # NoSize /\ Downscaled(jpegIn)) => ShortEdgeRule(jpegIn, brawJpeg)

Unscaled(in, out) == out.w = in.w /\ out.h = in.h /\ ~out.resize

\* C6: when maxDim <= 0 or the source short edge is at most maxDim, either
\* tool keeps the source dimensions and performs no resize step; and on every
\* input the two tools take the same decision to resize or not.
C6_NoResizeWithinMaxDim ==
  /\ (r3dJpeg # NoSize /\ ~Downscaled(jpegIn)) => Unscaled(jpegIn, r3dJpeg)
  /\ (brawJpeg # NoSize /\ ~Downscaled(jpegIn)) => Unscaled(jpegIn, brawJpeg)
  /\ (r3dJpeg # NoSize /\ brawJpeg # NoSize)
       => r3dJpeg.resize = brawJpeg.resize

\* both writers ran on an odd-sized source whose short edge equals maxDim
C6_Witness ==
  /\ r3dJpeg # NoSize /\ brawJpeg # NoSize
  /\ jpegIn.maxDim > 0 /\ ShortEdgeOf(jpegIn) = jpegIn.maxDim
  /\ jpegIn.w % 2 = 1
  /\ ~r3dJpeg.resize /\ ~brawJpeg.resize

\* ------------------------------------------------------------------------
\* Properties of the frame index (SpecIdx)
\* ------------------------------------------------------------------------
\* floor(timeSec * fps), for a requested time of at least 0
TimesFps(in) == IF Beyond(in.ticks, in.fps) THEN HugeIdx
                ELSE Floor(in.ticks, in.fps)

IndexRule(in, idx) ==
  /\ idx \in 0..(in.frameCount - 1)
  /\ (in.ticks >= 0 /\ TimesFps(in) < in.frameCount) => idx = TimesFps(in)
  /\ (in.ticks >= 0 /\ TimesFps(in) >= in.frameCount)
       => idx = in.frameCount - 1

\* C7: for a clip with frameCount > 0 the frame index either tool hands to
\* the SDK lies in [0, frameCount-1]; for timeSec >= 0 it is
\* floor(timeSec * fps) when that is below frameCount and frameCount-1
\* otherwise; in r3d-tool it is 0 when timeSec <= 0 or fps <= 0.
C7_FrameIndexClamped ==
  idxIn.frameCount > 0 =>
    /\ r3dIdx # NoIdx => IndexRule(idxIn, r3dIdx)
    /\ brawIdx # NoIdx => IndexRule(idxIn, brawIdx)
    /\ (r3dIdx # NoIdx /\ (idxIn.ticks <= 0 \/ idxIn.fps <= 0)) => r3dIdx = 0

\* ------------------------------------------------------------------------
\* Properties of the WAV bookkeeping (SpecWav)
\* ------------------------------------------------------------------------
\* cmd_extract_audio has returned after the header was written and the
\* sample loop ended
WavReturned == wav.stage = "returned" /\ wav.loopEnded

\* 2 bytes * channels * samples decoded
PcmBytes == WideMul(wav.decoded, 2 * wav.channels)

Below32(x) == x.hi < U16

\* the header states the bytes in the file
HeaderExact ==
  /\ wav.written = PcmBytes
  /\ wav.dataSize = wav.written
  /\ wav.fileSize = WideAdd(wav.dataSize, 36)

Signed16(u) == IF u >= 32768 THEN u - 65536 ELSE u

\* the 32-bit two's-complement reading of the big-endian bytes b0 b1 b2 b3
Signed32(p) ==
  (IF p[1] >= 128 THEN p[1] - 256 ELSE p[1]) * 16777216
    + p[2] * 65536 + p[3] * 256 + p[4]

\* C12: for every 4-byte big-endian input value b0 b1 b2 b3 the emitted PCM
\* sample is the signed 16-bit reading of b0*256 + b1, which is
\* floor(signed32(b0 b1 b2 b3) / 2^16), whatever b2 and b3 are.
C12_UpperSixteenBits ==
  intPcm # <<>> =>
    /\ intPcm[1] = Signed16(intIn[1] * 256 + intIn[2])
    /\ intPcm[1] = Signed32(intIn) \div 65536
    /\ \A b2, b3 \in AudioBytes :
         IntToPcm(<<intIn[1], intIn[2], b2, b3>>) = intPcm[1]

\* a negative value with low bytes set was converted: 0x80 0x01 0xFF 0xFF
\* gives -32767
C12_Witness ==
  intIn = <<128, 1, 255, 255>> /\ intPcm = <<-32767>>

\* ------------------------------------------------------------------------
\* Properties of the float sample conversion (SpecFloat)
\* ------------------------------------------------------------------------
\* trunc(clamp(s, -1.0, 1.0) * 32767) for a sample that is a number or an
\* infinity, the product being the single-precision one
ClampedScaled(f) == TruncFloat(MulFloat32767(Clamp(f)))

\* the rule on the samples that are no NaN
FloatRuleOnNumbers ==
  (fltPcm # <<>> /\ fltIn.kind # "nan") =>
    /\ fltPcm[1] = ClampedScaled(fltIn)
    /\ fltPcm[1] \in -32767..32767

\* C13: for every 32-bit float input sample s the emitted PCM value is
\* trunc(clamp(s, -1.0, 1.0) * 32767), and for any input it lies in
\* [-32767, 32767].
C13_ClampThenScale ==
  fltPcm # <<>> =>
    /\ fltIn.kind # "nan" => fltPcm[1] = ClampedScaled(fltIn)
    /\ fltPcm[1] \in -32767..32767

\* ------------------------------------------------------------------------
\* Properties of a run (Spec)
\* ------------------------------------------------------------------------
Done == pc = "done"

\* some call of the given names was made and failed
Failed(names) ==
  \E k \in 1..Len(sdk) : sdk[k][1] \in names /\ ~sdk[k][2]

SetupCalls == {"InitializeSdk", "LoadFrom", "CreateFactory", "CreateCodec",
               "OpenClip"}

\* the timestamps the tool reads from the times_json argument
ParsedTimes == IF tool = "r3d" THEN R3DParseTimes(call.args[2])
               ELSE ParseTimesJSON(call.args[2])

\* extract-frames got past the parse and the opening of the clip
FramesLoopEntered ==
  call.cmd = "extract-frames" /\ ParsedTimes # <<>> /\ ~Failed(SetupCalls)

SomeFrameFailed == \E k \in 1..Len(rets) : rets[k] # 0

C2_AudioReadFailureExitsOne ==
  (Done /\ call.cmd = "extract-audio" /\ audio.broke
     /\ audio.decoded < audio.total) => exit = 1

\* stdout holds one JSON object or array followed by a newline
IsJsonDoc(out) ==
  /\ Len(out) >= 3
  /\ out[Len(out)] = "\n"
  /\ \/ out[1] = "{" /\ out[Len(out) - 1] = "}"
     \/ out[1] = "[" /\ out[Len(out) - 1] = "]"

IndexText(i) ==
  IF i < 10 THEN <<"0", "0", "0", Digits[i + 1]>>
  ELSE <<"0", "0", Digits[(i \div 10) + 1], Digits[(i % 10) + 1]>>

ExpectedEntry(dir, i, ret) ==
  IF ret = 0
  THEN <<"\"">> \o dir \o <<"/","f","r","a","m","e","_">> \o IndexText(i)
         \o <<".","j","p","g","\"">>
  ELSE <<"n","u","l","l">>

RECURSIVE ExpectedEntries(_, _, _)
ExpectedEntries(dir, frameRets, k) ==
  IF k > Len(frameRets) THEN <<>>
  ELSE (IF k > 1 THEN <<",">> ELSE <<>>)
         \o ExpectedEntry(dir, k - 1, frameRets[k])
         \o ExpectedEntries(dir, frameRets, k + 1)

\* C4: once extract-frames has opened the clip, the parsed timestamps are
\* attempted in input order whatever the earlier attempts returned, and the
\* finished run has printed a JSON array with one entry per parsed timestamp
\* in input order: "<outdir>/frame_<i, 4 digits>.jpg" where the extraction
\* of timestamp i returned 0, null otherwise.
C4_OneEntryPerTimestamp ==
  FramesLoopEntered =>
    /\ attempted = SubSeq(ParsedTimes, 1, Len(attempted))
    /\ Len(rets) <= Len(attempted) /\ Len(attempted) <= Len(rets) + 1
    /\ Done =>
         /\ attempted = ParsedTimes
         /\ Len(rets) = Len(ParsedTimes)
         /\ stdout = <<"[">> \o ExpectedEntries(call.args[3], rets, 1)
                       \o <<"]", "\n">>

\* a run over three timestamps has ended, the first failed, the second
\* extracted, the third failed
C4_Witness ==
  FramesLoopEntered /\ Done /\ rets = <<1, 0, 1>>

\* C8 concerns command lines of this shape: extract-frame or extract-frames,
\* three positional arguments, then nothing, "--max-dim" or "--max-dim N"
Trailer == SubSeq(argv, 6, Len(argv))
TrailerShape ==
  /\ Argc(argv) >= 5
  /\ Arg(argv, 1) \in {TokExtractFrame, TokExtractFrames}
  /\ \/ Trailer = <<>>
     \/ Trailer = <<TokMaxDim>>
     \/ Len(Trailer) = 2 /\ Trailer[1] = TokMaxDim

\* what main calls on the same command line without the trailer
CallWithoutTrailer ==
  IF tool = "r3d" THEN R3DDispatch(SubSeq(argv, 1, 5))
  ELSE BrawDispatch(SubSeq(argv, 1, 5))

\* main got as far as choosing the subcommand
Dispatched == pc # "main" /\ ~Failed({"InitializeSdk"})

\* C8: on such a command line the subcommand called and the positional
\* arguments it receives are those of the command line without the trailer,
\* and the subcommand receives maxDim = atoi(N) when the trailer is
\* "--max-dim N" and 512 when it is empty or a lone "--max-dim".
C8_TrailingMaxDim ==
  (TrailerShape /\ Dispatched) =>
    /\ call.cmd = CallWithoutTrailer.cmd
    /\ call.args = CallWithoutTrailer.args
    /\ call.cmd # "none" =>
         call.maxDim = IF Len(Trailer) = 2 THEN Atoi(Trailer[2])
                       ELSE DefaultMaxDim

\* the calls of an extract-frame run in which every step succeeds
FrameCallsR3D == <<"InitializeSdk", "LoadFrom", "alignedAlloc",
                   "DecodeVideoFrame", "writeBGRAasJPEG">>
FrameCallsBraw == <<"CreateFactory", "CreateCodec", "OpenClip",
                    "SetCallback", "CreateJobReadFrame", "Submit",
                    "ReadComplete", "CreateJobDecodeAndProcessFrame",
                    "ProcessComplete", "WriteJPEG">>
AllSucceeded(calls) ==
  sdk = [k \in 1..Len(calls) |-> <<calls[k], TRUE>>]

\* C9: extract-frame exits 0 exactly when SDK setup, clip open, the frame
\* read/decode and the JPEG write were all made and all succeeded; a failing
\* step, a read callback with a non-OK status included, gives exit code 1.
C9_ExtractFrameExit ==
  (Done /\ call.cmd = "extract-frame") =>
    /\ exit \in {0, 1}
    /\ exit = 0 <=> AllSucceeded(IF tool = "r3d" THEN FrameCallsR3D
                                 ELSE FrameCallsBraw)
    /\ (\E k \in 1..Len(sdk) : ~sdk[k][2]) => exit = 1

\* a braw-tool extract-frame run has ended after a read callback with a
\* non-OK status
C9_Witness ==
  /\ tool = "braw" /\ Done /\ call.cmd = "extract-frame"
  /\ Failed({"ReadComplete"}) /\ exit = 1

\* C10: a run that ends with exit code 1 has written nothing to stdout.
C10_ExitOneStdoutEmpty == exit = 1 => stdout = <<>>

\* an extract-audio run has ended with exit code 1 before its read loop
C10_Witness ==
  Done /\ exit = 1 /\ call.cmd = "extract-audio" /\ Failed({"fopen"})
    /\ stderr # <<>>

====
